---- MODULE Spec2Model ----
(***************************************************************************)
(* The chess leaderboard script src/app.py as a state machine.  One run of *)
(* the script is a straight line: load the table, normalise it, infer the  *)
(* missing statistics, zero-fill and rename, sort, pin, compute the        *)
(* sidebar metrics and style the rows.  pc is the position in the script.  *)
(*                                                                         *)
(* Numbers are exact rationals <<n, d>> in lowest terms with d > 0; the    *)
(* float NaN / pd.NA of a numeric column is <<0, 0>> and the float         *)
(* infinities are <<1, 0>> and <<-1, 0>>.  The values used are small, so   *)
(* the script's float64 arithmetic on them rounds the same way as the      *)
(* exact arithmetic here.  The free-text columns model and prompt are      *)
(* carried through the script untouched and are left out.                  *)
(***************************************************************************)
EXTENDS Integers, Sequences, FiniteSets, TLC

VARIABLES
    uploaded_file,  \* the uploader's value: [present, data]
    pc,             \* position in the script
    df,             \* the working DataFrame: a sequence of rows
    sort_option,    \* the "Sort leaderboard by" selection
    pin_choice,     \* the "Pin one player" selection
    normalized,     \* history: df when line 48 has run (the Inferencer's input)
    inferred,       \* history: df when line 76 has run (the Inferencer's output)
    sorted,         \* history: df when line 102 has run
    metrics,        \* the four sidebar metrics (lines 115-119)
    styles          \* the style of each displayed row (line 138)

vars == <<uploaded_file, pc, df, sort_option, pin_choice, normalized, inferred,
          sorted, metrics, styles>>

(***************************************************************************)
(* Bounds of the model.                                                    *)
(***************************************************************************)
\* Largest wins / losses / games value of an enumerated upload row.
MaxCount == 2
\* Largest number of rows of an enumerated multi-row upload.
MaxRows == 3

(***************************************************************************)
(* Numbers.                                                                *)
(***************************************************************************)
Abs(n) == IF n < 0 THEN -n ELSE n

RECURSIVE GCD(_, _)
GCD(a, b) == IF b = 0 THEN a ELSE GCD(b, a % b)

NaN == <<0, 0>>

Rat(n, d) ==
    IF d = 0 THEN <<IF n > 0 THEN 1 ELSE IF n < 0 THEN -1 ELSE 0, 0>>
    ELSE LET g == GCD(Abs(n), Abs(d))
             s == IF d < 0 THEN -1 ELSE 1
         IN  <<(s * n) \div g, (s * d) \div g>>

Whole(n) == <<n, 1>>

isna(x) == x = NaN
notna(x) == x # NaN

\* Arithmetic of two Series elements: NaN propagates.
Add(x, y) == IF isna(x) \/ isna(y) THEN NaN ELSE Rat(x[1] * y[2] + y[1] * x[2], x[2] * y[2])
Sub(x, y) == IF isna(x) \/ isna(y) THEN NaN ELSE Rat(x[1] * y[2] - y[1] * x[2], x[2] * y[2])
Mul(x, y) == IF isna(x) \/ isna(y) THEN NaN ELSE Rat(x[1] * y[1], x[2] * y[2])
\* Float division raises nothing: x / 0 is an infinity, 0 / 0 is NaN.
Div(x, y) == IF isna(x) \/ isna(y) THEN NaN ELSE Rat(x[1] * y[2], x[2] * y[1])

\* Comparisons: any comparison with NaN is False.
Gt(x, y) == notna(x) /\ notna(y) /\ x[1] * y[2] > y[1] * x[2]
Ge(x, y) == notna(x) /\ notna(y) /\ x[1] * y[2] >= y[1] * x[2]
Le(x, y) == Ge(y, x)

IsInteger(x) == x[2] = 1

Floor(x) == x[1] \div x[2]

\* Series.round(): numpy rounds halves to the even neighbour.
round(x) ==
    IF x[2] = 0 THEN x
    ELSE LET f == Floor(x)
             twice == 2 * (x[1] - f * x[2])     \* 2 * fractional part * d
         IN  IF twice < x[2] THEN Whole(f)
             ELSE IF twice > x[2] THEN Whole(f + 1)
             ELSE IF f % 2 = 0 THEN Whole(f) ELSE Whole(f + 1)

\* Python int(): truncation towards zero.
int(x) == IF x[2] = 0 THEN 0 ELSE IF x[1] >= 0 THEN Floor(x) ELSE -((-x[1]) \div x[2])

(***************************************************************************)
(* Raw cells and tables.                                                   *)
(***************************************************************************)
Num(n, d) == [kind |-> "num", val |-> Rat(n, d)]
Empty == [kind |-> "empty", val |-> NaN]     \* an empty CSV cell
Text == [kind |-> "text", val |-> NaN]       \* a cell that is not a number
NA == [kind |-> "NA", val |-> NaN]           \* pd.NA of a synthesized column

\* A player cell that read_csv left empty: float nan, equal to nothing.
PlayerNaN == "nan"

required_cols ==
    {"player", "final_standing", "win_rate", "wins", "losses", "games", "mu_rating"}

numeric_cols == {"final_standing", "win_rate", "wins", "losses", "games", "mu_rating"}

DemoRow(p, fs, wr, g, mu) ==
    [player |-> p, final_standing |-> Num(fs, 1), win_rate |-> Num(wr, 100),
     games |-> Num(g, 1), mu_rating |-> Num(mu, 1)]

DemoData ==
    << DemoRow("Alpha", 1, 92, 25, 2100),
       DemoRow("Bravo", 3, 78, 27, 1980),
       DemoRow("Charlie", 5, 65, 26, 1850),
       DemoRow("Delta", 2, 84, 24, 2050),
       DemoRow("Echo", 4, 81, 23, 1995) >>

NoFile == [present |-> FALSE, data |-> <<>>]
File(rows) == [present |-> TRUE, data |-> rows]

(***************************************************************************)
(* Schema normalisation, lines 36-48.                                      *)
(***************************************************************************)
\* Lines 39-41: a required column the table lacks is added, filled with pd.NA.
Cell(r, c) == IF c \in DOMAIN r THEN r[c] ELSE NA

\* Line 45: pd.to_numeric(errors="coerce").
to_numeric(cell) == IF cell.kind = "num" THEN cell.val ELSE NaN

Percent == 100

\* Line 48: win_rate > 1 is a percentage.
rescale(wr) == IF Gt(wr, Whole(1)) THEN Div(wr, Whole(Percent)) ELSE wr

\* Lines 37-48 on one row; "row" is the row's index label.
NormalizeRow(r, i) ==
    [c \in required_cols \cup {"row"} |->
        IF c = "row" THEN i
        ELSE IF c = "player" THEN Cell(r, c)
        ELSE IF c = "win_rate" THEN rescale(to_numeric(Cell(r, c)))
        ELSE to_numeric(Cell(r, c))]

NormalizeTable(d) == [i \in 1..Len(d) |-> NormalizeRow(d[i], i)]

(***************************************************************************)
(* Statistic inference, lines 58-72.                                       *)
(***************************************************************************)
\* df.loc[mask, col] = values: the masked rows take their element of values.
Assign(d, mask, col, values) ==
    [i \in 1..Len(d) |-> IF mask[i] THEN [d[i] EXCEPT ![col] = values[i]] ELSE d[i]]

\* Series.astype("Int64") of a float Series: NaN becomes <NA>, an integral value
\* is kept, and any other value makes the cast raise TypeError.
CastRaises(values) == \E i \in DOMAIN values : notna(values[i]) /\ ~IsInteger(values[i])

mask_wins(d) ==
    [i \in 1..Len(d) |-> isna(d[i].wins) /\ notna(d[i].games) /\ notna(d[i].win_rate)]
wins_estimate(d) == [i \in 1..Len(d) |-> round(Mul(d[i].games, d[i].win_rate))]

\* Rule 2 with the operands of the subtraction exchanged.
losses_estimate_swapped(d) == [i \in 1..Len(d) |-> Sub(d[i].wins, d[i].games)]

mask_losses(d) ==
    [i \in 1..Len(d) |-> isna(d[i].losses) /\ notna(d[i].games) /\ notna(d[i].wins)]
losses_estimate(d) == [i \in 1..Len(d) |-> Sub(d[i].games, d[i].wins)]

mask_games(d) ==
    [i \in 1..Len(d) |-> isna(d[i].games) /\ notna(d[i].wins) /\ notna(d[i].losses)]
games_estimate(d) == [i \in 1..Len(d) |-> Add(d[i].wins, d[i].losses)]

\* Rule 4 without its games > 0 guard.
mask_wr_unguarded(d) ==
    [i \in 1..Len(d) |-> isna(d[i].win_rate) /\ notna(d[i].wins) /\ notna(d[i].games)]

mask_wr(d) ==
    [i \in 1..Len(d) |-> /\ isna(d[i].win_rate) /\ notna(d[i].wins) /\ notna(d[i].games)
                         /\ Gt(d[i].games, Whole(0))]
wr_estimate(d) == [i \in 1..Len(d) |-> Div(d[i].wins, d[i].games)]

Step1(d) == Assign(d, mask_wins(d), "wins", wins_estimate(d))
Step2(d) == Assign(d, mask_losses(d), "losses", losses_estimate(d))
Step3(d) == Assign(d, mask_games(d), "games", games_estimate(d))
Step4(d) == Assign(d, mask_wr(d), "win_rate", wr_estimate(d))

\* Lines 58-72 raise at line 64 or 68 when a cast to Int64 fails.
InferRaises(d) ==
    \/ CastRaises(losses_estimate(Step1(d)))
    \/ CastRaises(games_estimate(Step2(Step1(d))))

InferTable(d) == Step4(Step3(Step2(Step1(d))))

(***************************************************************************)
(* Zero fill and rename, lines 74-89.                                      *)
(***************************************************************************)
fillna(x) == IF isna(x) THEN Whole(0) ELSE x

FillRow(r) == [c \in DOMAIN r |-> IF c \in numeric_cols THEN fillna(r[c]) ELSE r[c]]

FillTable(d) == [i \in 1..Len(d) |-> FillRow(d[i])]

DisplayCols ==
    {"Player", "Final Standing", "Win Rate", "Wins", "Losses", "Games", "Mu Rating"}

InternalName(c) ==
    CASE c = "Player" -> "player"
      [] c = "Final Standing" -> "final_standing"
      [] c = "Win Rate" -> "win_rate"
      [] c = "Wins" -> "wins"
      [] c = "Losses" -> "losses"
      [] c = "Games" -> "games"
      [] c = "Mu Rating" -> "mu_rating"
      [] OTHER -> c

rename(d) ==
    [i \in 1..Len(d) |-> [c \in DisplayCols \cup {"row"} |-> d[i][InternalName(c)]]]

(***************************************************************************)
(* Sorting and pinning, lines 95-109.                                      *)
(***************************************************************************)
SortOptions == {"Final Standing", "Win Rate", "Mu Rating", "Wins", "Losses"}

\* Line 101.
ascending(option) == option \in {"Final Standing", "Losses"}

Perms(n) == {p \in [1..n -> 1..n] : \A i, j \in 1..n : p[i] = p[j] => i = j}

InOrder(s, by, asc) ==
    \A i \in 1..(Len(s) - 1) :
        IF asc THEN Le(s[i][by], s[i + 1][by]) ELSE Ge(s[i][by], s[i + 1][by])

\* Line 102: sort_values with the default kind="quicksort", which pandas documents
\* as not stable: the result is in key order, and rows with equal keys come in
\* whatever order the numpy build's quicksort leaves them.
sort_values(d, by, asc) ==
    {s \in {[i \in 1..Len(d) |-> d[p[i]]] : p \in Perms(Len(d))} : InOrder(s, by, asc)}

\* Series == / != on the Player column: nan equals nothing.
eq(a, b) == a # PlayerNaN /\ b # PlayerNaN /\ a = b

\* Line 105: the selectbox offers "None" and every Player of the sorted table.
PinOptions(d) == {"None"} \cup {d[i]["Player"] : i \in 1..Len(d)}

\* The pin with the two parts concatenated the other way round.
pin_others_first(d, choice) ==
    IF choice # "None"
    THEN LET pinned == SelectSeq(d, LAMBDA r : eq(r["Player"], choice))
             others == SelectSeq(d, LAMBDA r : ~eq(r["Player"], choice))
         IN  others \o pinned
    ELSE d

\* Lines 106-109.
pin(d, choice) ==
    IF choice # "None"
    THEN LET pinned == SelectSeq(d, LAMBDA r : eq(r["Player"], choice))
             others == SelectSeq(d, LAMBDA r : ~eq(r["Player"], choice))
         IN  pinned \o others
    ELSE d

(***************************************************************************)
(* Sidebar metrics, lines 114-119.                                         *)
(***************************************************************************)
RECURSIVE ColumnSum(_, _)
ColumnSum(d, col) ==
    IF d = <<>> THEN Whole(0) ELSE Add(Head(d)[col], ColumnSum(Tail(d), col))

\* The 0.8 of lines 119 and 129.
HighWinRate == Rat(4, 5)

\* Line 117: the guard is the truth value of the sum.
avg_wr(d) ==
    IF ColumnSum(d, "Games") # Whole(0)
    THEN Div(ColumnSum(d, "Wins"), ColumnSum(d, "Games"))
    ELSE Whole(0)

QuickStats(d) ==
    [players |-> Len(d),
     total_games |-> int(ColumnSum(d, "Games")),
     avg_wr |-> avg_wr(d),
     high |-> Cardinality({i \in 1..Len(d) : Ge(d[i]["Win Rate"], HighWinRate)})]

NoStats == [players |-> 0, total_games |-> 0, avg_wr |-> NaN, high |-> 0]

(***************************************************************************)
(* Row highlighting, lines 124-131.                                        *)
(***************************************************************************)
PinnedStyle == "background-color:#e8f0ff"
TopThreeStyle == "background-color:#fff8dc"
HighStyle == "background-color:#eaffea"
NoStyle == ""

TopThree == 3

highlight_row(row, choice) ==
    IF choice # "None" /\ eq(row["Player"], choice) THEN PinnedStyle
    ELSE IF int(row["Final Standing"]) <= TopThree THEN TopThreeStyle
    ELSE IF Ge(row["Win Rate"], HighWinRate) THEN HighStyle
    ELSE NoStyle

(***************************************************************************)
(* The uploads enumerated.                                                 *)
(***************************************************************************)
Seqs(S, n) == UNION {[1..k -> S] : k \in 0..n}

CountCells == {Empty} \cup {Num(n, 1) : n \in 0..MaxCount}
RateCells == {Empty, Num(0, 1), Num(1, 2), Num(4, 5), Num(1, 1), Num(50, 1)}
StandingCells == {Empty, Num(1, 1), Num(4, 1)}

\* One-row uploads: every combination of the statistics, no mu_rating column.
StatRows ==
    [player : {"a"}, final_standing : StandingCells, win_rate : RateCells,
     wins : CountCells \cup {Text}, losses : CountCells, games : CountCells]

\* Multi-row uploads, with no wins, losses or mu_rating column: named and
\* unnamed players with different win rates, and players with different
\* standings.
RateRows ==
    [player : {"a", PlayerNaN}, final_standing : {Num(4, 1)},
     win_rate : {Num(1, 2), Num(90, 1)}, games : {Num(2, 1)}]
StandingRows ==
    [player : {"a", "b"}, final_standing : {Num(1, 1), Num(4, 1)},
     win_rate : {Num(90, 1)}, games : {Num(2, 1)}]

\* The rows of the fill-precedence examples.
ExampleRows ==
    << [player |-> "a", games |-> Num(20, 1), win_rate |-> Num(1, 2),
        wins |-> Empty, losses |-> Empty],
       [player |-> "b", games |-> Empty, win_rate |-> Empty,
        wins |-> Num(7, 1), losses |-> Num(3, 1)],
       [player |-> "c", games |-> Empty, win_rate |-> Empty,
        wins |-> Empty, losses |-> Empty] >>

\* One-row uploads with cells outside the data model: negative, fractional,
\* above 100 percent.
AnyCounts == {Empty, Num(-1, 1), Num(1, 2), Num(1, 1)}
AnyRows ==
    [player : {"a"}, final_standing : {Empty, Num(-1, 1), Num(7, 2)},
     win_rate : {Empty, Num(-1, 2), Num(1, 2), Num(150, 1)},
     wins : AnyCounts, losses : AnyCounts, games : AnyCounts]

\* Uploads whose cells are of the kinds the data model names.
Uploads ==
    {<<r>> : r \in StatRows}
        \cup Seqs(RateRows, MaxRows) \cup Seqs(StandingRows, MaxRows) \cup {ExampleRows}

\* Uploads with any number in a cell.
AnyUploads == Uploads \cup {<<r>> : r \in AnyRows}

(***************************************************************************)
(* The script.                                                             *)
(***************************************************************************)
Start(file) ==
    /\ uploaded_file = file
    /\ pc = "load"
    /\ df = <<>>
    /\ sort_option = "Final Standing"
    /\ pin_choice = "None"
    /\ normalized = <<>>
    /\ inferred = <<>>
    /\ sorted = <<>>
    /\ metrics = NoStats
    /\ styles = <<>>

Init == \E file \in {NoFile} \cup {File(t) : t \in Uploads} : Start(file)

InitAny == \E file \in {NoFile} \cup {File(t) : t \in AnyUploads} : Start(file)

\* Lines 19-30.
Load ==
    /\ pc = "load"
    /\ df' = IF uploaded_file.present THEN uploaded_file.data ELSE DemoData
    /\ pc' = "normalize"
    /\ UNCHANGED <<uploaded_file, sort_option, pin_choice, normalized, inferred,
                   sorted, metrics, styles>>

\* Lines 36-56.
Normalize ==
    /\ pc = "normalize"
    /\ df' = NormalizeTable(df)
    /\ normalized' = df'
    /\ pc' = "infer"
    /\ UNCHANGED <<uploaded_file, sort_option, pin_choice, inferred, sorted,
                   metrics, styles>>

\* Lines 58-72; an uncaught TypeError ends the run.
Infer ==
    /\ pc = "infer"
    /\ IF InferRaises(df)
       THEN pc' = "error" /\ UNCHANGED df
       ELSE pc' = "fillna" /\ df' = InferTable(df)
    /\ UNCHANGED <<uploaded_file, sort_option, pin_choice, normalized, inferred,
                   sorted, metrics, styles>>

\* Lines 74-89.
FillNa ==
    /\ pc = "fillna"
    /\ inferred' = FillTable(df)
    /\ df' = rename(inferred')
    /\ pc' = "sort"
    /\ UNCHANGED <<uploaded_file, sort_option, pin_choice, normalized, sorted,
                   metrics, styles>>

\* Lines 94-102.
Sort ==
    /\ pc = "sort"
    /\ \E option \in SortOptions :
        /\ sort_option' = option
        /\ df' \in sort_values(df, option, ascending(option))
    /\ sorted' = df'
    /\ pc' = "pin"
    /\ UNCHANGED <<uploaded_file, pin_choice, normalized, inferred, metrics, styles>>

\* Lines 104-109.
Pin ==
    /\ pc = "pin"
    /\ \E choice \in PinOptions(df) :
        /\ pin_choice' = choice
        /\ df' = pin(df, choice)
    /\ pc' = "stats"
    /\ UNCHANGED <<uploaded_file, sort_option, normalized, inferred, sorted,
                   metrics, styles>>

\* Lines 114-119.
Stats ==
    /\ pc = "stats"
    /\ metrics' = QuickStats(df)
    /\ pc' = "style"
    /\ UNCHANGED <<uploaded_file, df, sort_option, pin_choice, normalized, inferred,
                   sorted, styles>>

\* Lines 124-139.
Style ==
    /\ pc = "style"
    /\ styles' = [i \in 1..Len(df) |-> highlight_row(df[i], pin_choice)]
    /\ pc' = "done"
    /\ UNCHANGED <<uploaded_file, df, sort_option, pin_choice, normalized, inferred,
                   sorted, metrics>>

\* The framework runs the script again, from the top, on the same upload.
Rerun ==
    /\ pc \in {"done", "error"}
    /\ pc' = "load"
    /\ df' = <<>>
    /\ sort_option' = "Final Standing"
    /\ pin_choice' = "None"
    /\ normalized' = <<>>
    /\ inferred' = <<>>
    /\ sorted' = <<>>
    /\ metrics' = NoStats
    /\ styles' = <<>>
    /\ UNCHANGED uploaded_file

Next ==
    \/ Load
    \/ Normalize
    \/ Infer
    \/ FillNa
    \/ Sort
    \/ Pin
    \/ Stats
    \/ Style
    \/ Rerun

\* The runs on the demo table and on uploads within the data model.
Spec == Init /\ [][Next]_vars

\* The runs on every enumerated upload.
SpecAny == InitAny /\ [][Next]_vars

(***************************************************************************)
(* Properties.                                                             *)
(***************************************************************************)
\* The script is past line 76: the Inferencer has returned a table.
PostInfer == {"sort", "pin", "stats", "style", "done"}
\* The script is past line 72 or was ended by it.
InferTried == PostInfer \cup {"fillna", "error"}
PostPin == {"stats", "style", "done"}

Stat(r) == <<r.wins, r.losses, r.games, r.win_rate>>

Rows(d) == 1..Len(d)

\* The five fill rules applied to one row, in order, later rules seeing
\* earlier fills.
RuleRow(r) ==
    LET w1 == IF isna(r.wins) /\ notna(r.games) /\ notna(r.win_rate)
              THEN round(Mul(r.games, r.win_rate)) ELSE r.wins
        l2 == IF isna(r.losses) /\ notna(r.games) /\ notna(w1)
              THEN Sub(r.games, w1) ELSE r.losses
        g3 == IF isna(r.games) /\ notna(w1) /\ notna(l2)
              THEN Add(w1, l2) ELSE r.games
        r4 == IF isna(r.win_rate) /\ notna(w1) /\ notna(g3) /\ Gt(g3, Whole(0))
              THEN Div(w1, g3) ELSE r.win_rate
        Zero(x) == IF isna(x) THEN Whole(0) ELSE x
    IN  <<Zero(w1), Zero(l2), Zero(g3), Zero(r4)>>

ExampleIn1 == <<NaN, NaN, Whole(20), Rat(1, 2)>>
ExampleOut1 == <<Whole(10), Whole(10), Whole(20), Rat(1, 2)>>
ExampleIn2 == <<Whole(7), Whole(3), NaN, NaN>>
ExampleOut2 == <<Whole(7), Whole(3), Whole(10), Rat(7, 10)>>
ExampleIn3 == <<NaN, NaN, NaN, NaN>>
ExampleOut3 == <<Whole(0), Whole(0), Whole(0), Whole(0)>>

\* C1: for every normalized row, once lines 58-76 have been run, the Inferencer
\* has returned a table whose row is the result of the five fill rules applied
\* in order; the three examples of the fill precedence come out as stated.
C1_FillRulesInOrder ==
    pc \in InferTried =>
        /\ pc # "error"
        /\ pc \in PostInfer =>
            \A i \in Rows(normalized) :
                /\ Stat(inferred[i]) = RuleRow(normalized[i])
                /\ Stat(normalized[i]) = ExampleIn1 => Stat(inferred[i]) = ExampleOut1
                /\ Stat(normalized[i]) = ExampleIn2 => Stat(inferred[i]) = ExampleOut2
                /\ Stat(normalized[i]) = ExampleIn3 => Stat(inferred[i]) = ExampleOut3

\* Whenever the Inferencer returns a table, each row is the result of the five
\* fill rules in order (the runs that line 64 or 68 ends have no table).
FillRulesWhenReturned ==
    pc \in PostInfer =>
        \A i \in Rows(normalized) : Stat(inferred[i]) = RuleRow(normalized[i])

StatCols == {"wins", "losses", "games", "win_rate"}

\* C2: a value present in the Inferencer's input is the same in its output, and
\* the Inferencer run on its own output returns that output.
C2_PresentKeptAndIdempotent ==
    pc \in PostInfer =>
        /\ \A i \in Rows(normalized) : \A c \in StatCols :
               notna(normalized[i][c]) => inferred[i][c] = normalized[i][c]
        /\ ~InferRaises(inferred)
        /\ FillTable(InferTable(inferred)) = inferred

\* Whenever the Inferencer returns a table, no present value has been changed.
PresentKept ==
    pc \in PostInfer =>
        \A i \in Rows(normalized) : \A c \in StatCols :
            notna(normalized[i][c]) => inferred[i][c] = normalized[i][c]

NonNegInteger(x) == IsInteger(x) /\ x[1] >= 0

\* C3: after normalize, infer and zero-fill every row has win_rate in [0, 1] and
\* wins, losses, games and final_standing non-negative integers.
C3_RangesAfterPipeline ==
    pc \in PostInfer =>
        \A i \in Rows(inferred) :
            /\ Ge(inferred[i].win_rate, Whole(0)) /\ Le(inferred[i].win_rate, Whole(1))
            /\ NonNegInteger(inferred[i].wins)
            /\ NonNegInteger(inferred[i].losses)
            /\ NonNegInteger(inferred[i].games)
            /\ NonNegInteger(inferred[i].final_standing)

PostSort == {"pin", "stats", "style", "done"}

\* C4: the sorted table is ascending in the key for Final Standing and Losses
\* and descending for the other keys, and rows with equal keys keep the order
\* they had before the sort ("row" is the position before the sort).
C4_SortedAndStable ==
    pc \in PostSort =>
        \A i, j \in Rows(sorted) :
            i < j =>
                /\ IF sort_option \in {"Final Standing", "Losses"}
                   THEN Le(sorted[i][sort_option], sorted[j][sort_option])
                   ELSE Ge(sorted[i][sort_option], sorted[j][sort_option])
                /\ sorted[i][sort_option] = sorted[j][sort_option]
                       => sorted[i]["row"] < sorted[j]["row"]

\* The sorted table is in key order, in the direction line 101 chooses.
SortedInDirection ==
    pc \in PostSort =>
        \A i, j \in Rows(sorted) :
            i < j =>
                IF sort_option \in {"Final Standing", "Losses"}
                THEN Le(sorted[i][sort_option], sorted[j][sort_option])
                ELSE Ge(sorted[i][sort_option], sorted[j][sort_option])

Matches(r) == eq(r["Player"], pin_choice)

\* The position of row r in the sorted table.
SortedPos(r) == CHOOSE k \in Rows(sorted) : sorted[k] = r

SumsUp(r) == Add(r.wins, r.losses) = r.games

\* C6 as stated: after inference wins + losses = games, except in rows whose
\* wins, losses and games were all present in the input and inconsistent.
C6_SumsUpUnlessAllPresent ==
    pc \in PostInfer =>
        \A i \in Rows(inferred) :
            ~SumsUp(inferred[i]) =>
                /\ notna(normalized[i].wins)
                /\ notna(normalized[i].losses)
                /\ notna(normalized[i].games)
                /\ ~SumsUp(normalized[i])

Rule2Fires(r) ==
    isna(r.losses) /\ notna(r.games) /\ (notna(r.wins) \/ notna(r.win_rate))
Rule3Fires(r) == isna(r.games) /\ notna(r.wins) /\ notna(r.losses)
NoCounts(r) == isna(r.wins) /\ isna(r.losses) /\ isna(r.games)

\* C6 amended: after inference wins + losses = games in every row whose losses
\* were filled by rule 2, whose games were filled by rule 3, or whose wins,
\* losses and games were all missing.
C6_SumsUpWhereARuleFilled ==
    pc \in PostInfer =>
        \A i \in Rows(inferred) :
            (Rule2Fires(normalized[i]) \/ Rule3Fires(normalized[i]) \/ NoCounts(normalized[i]))
                => SumsUp(inferred[i])

\* C6's case: rule 1 estimated wins and rule 2 derived losses from them.
C6_Witness ==
    /\ pc = "sort"
    /\ \E i \in Rows(inferred) :
        /\ isna(normalized[i].wins) /\ isna(normalized[i].losses)
        /\ normalized[i].games = Whole(2)
        /\ inferred[i].wins = Whole(1)
        /\ inferred[i].losses = Whole(1)

\* C7 as stated: after inference every row with games = 0 has win_rate = 0,
\* whatever the input row carried.
C7_ZeroGamesZeroRate ==
    pc \in PostInfer =>
        \A i \in Rows(inferred) :
            inferred[i].games = Whole(0) => inferred[i].win_rate = Whole(0)

\* C7 amended: after inference every row with games = 0 whose win_rate was
\* missing in the input has win_rate = 0 (rule 4 does not fire on games = 0, the
\* zero fill supplies the value).
C7_ZeroGamesMissingRate ==
    pc \in PostInfer =>
        \A i \in Rows(inferred) :
            (inferred[i].games = Whole(0) /\ isna(normalized[i].win_rate))
                => inferred[i].win_rate = Whole(0)

\* C7's case: wins and games = 0 are present, win_rate is missing, and the
\* zero fill has run.
C7_Witness ==
    /\ pc = "sort"
    /\ \E i \in Rows(inferred) :
        /\ normalized[i].games = Whole(0)
        /\ normalized[i].wins = Whole(1)
        /\ isna(normalized[i].win_rate)
        /\ inferred[i].win_rate = Whole(0)

\* The summary as the claim defines it.
SummaryOf(d) ==
    [players |-> Len(d),
     total_games |-> ColumnSum(d, "Games"),
     avg_wr |-> IF Gt(ColumnSum(d, "Games"), Whole(0))
                THEN Div(ColumnSum(d, "Wins"), ColumnSum(d, "Games"))
                ELSE Whole(0),
     high |-> Cardinality({i \in Rows(d) : Ge(d[i]["Win Rate"], Rat(4, 5))})]

PostStats == {"style", "done"}

\* C8: the four metrics are the row count, the sum of Games, sum(Wins) /
\* sum(Games) when sum(Games) > 0 and 0 otherwise, and the number of rows with
\* Win Rate >= 0.80; they are the same whatever the sort key and pin (they are
\* those of the unsorted, unpinned table).
C8_Summary ==
    pc \in PostStats =>
        /\ [metrics EXCEPT !.total_games = Whole(@)] = SummaryOf(df)
        /\ SummaryOf(df) = SummaryOf(rename(inferred))

InTopThree(r) ==
    Ge(r["Final Standing"], Whole(1)) /\ Le(r["Final Standing"], Whole(TopThree))

\* C9: first match wins, in the order pinned, top-three, high-performer, none:
\* the pinned player's row is styled pinned; a row not pinned with Final Standing
\* in 1..3 is styled top-three; a row not pinned and outside the top three is
\* styled high-performer exactly when its Win Rate >= 0.80, and otherwise not
\* styled.
C9_HighlightPrecedence ==
    pc = "done" =>
        \A i \in Rows(df) :
            LET pinnedRow == pin_choice # "None" /\ Matches(df[i])
                highRate == Ge(df[i]["Win Rate"], Rat(4, 5))
            IN  /\ pinnedRow => styles[i] = PinnedStyle
                /\ (~pinnedRow /\ InTopThree(df[i])) => styles[i] = TopThreeStyle
                /\ (~pinnedRow /\ ~InTopThree(df[i]))
                       => styles[i] = IF highRate THEN HighStyle ELSE NoStyle

\* C10: a row not pinned whose Final Standing is 0 is never styled top-three: it
\* is styled high-performer when its Win Rate >= 0.80 and not styled otherwise.
C10_SentinelNotTopThree ==
    pc = "done" =>
        \A i \in Rows(df) :
            (~(pin_choice # "None" /\ Matches(df[i])) /\ df[i]["Final Standing"] = Whole(0))
                => styles[i] = IF Ge(df[i]["Win Rate"], Rat(4, 5)) THEN HighStyle ELSE NoStyle

====
